---- MODULE Spec2Model ----
(***************************************************************************)
(* nice-react-flex: the prop normalizer (normalizeProps) and the           *)
(* breakpoint style resolver (styleFlex, with styleSpacing and getGapSize).*)
(*                                                                         *)
(* JavaScript values are tagged records, so that typeof, the in operator,  *)
(* ??, truthiness and === are computed as the runtime computes them.  A    *)
(* JavaScript string is a sequence of chunks (TLA+ strings); a template    *)
(* literal concatenates chunks, Array.join inserts the separator chunk,    *)
(* and the lines of a string are what lies between its "\n" chunks.        *)
(***************************************************************************)
EXTENDS Integers, Sequences, FiniteSets, TLC

VARIABLES
    pc,               \* which call returned last
    props,            \* the record the caller passed (the argument's cell, as it is now)
    normalizedProps,  \* the record normalizeProps returned
    ret,              \* [ref, threw]: the cell normalizeProps returned, or that it threw
    again,            \* the result of normalizeProps(normalizeProps(props))
    breakpoint,       \* styleFlex's first argument
    flexProps,        \* styleFlex's second argument
    css,              \* the string styleFlex / styleSpacing returned
    type,             \* styleSpacing's first argument
    def               \* styleSpacing's second argument

vars == <<pc, props, normalizedProps, ret, again, breakpoint, flexProps, css, type, def>>

----------------------------------------------------------------------------
(* JavaScript values *)

Undefined == [t |-> "undefined"]

Null == [t |-> "null"]

Num(n) == [t |-> "number", n |-> n]

Str(s) == [t |-> "string", s |-> s]

Obj(o) == [t |-> "object", o |-> o]

EmptyObj == [k \in {} |-> Undefined]

\* typeof v
TypeOf(v) == IF v.t = "null" THEN "object" ELSE v.t

\* v[k] of an object: an absent key reads undefined
Get(v, k) == IF k \in DOMAIN v.o THEN v.o[k] ELSE Undefined

\* k in v, for an object v
HasKey(v, k) == k \in DOMAIN v.o

\* the in operator throws a TypeError when its right operand is not an object
InThrows(v) == v.t # "object"

\* a ?? b
Coalesce(a, b) == IF a.t \in {"undefined", "null"} THEN b ELSE a

\* the truthiness of v, as if (v) tests it
Truthy(v) ==
    CASE v.t = "undefined" -> FALSE
      [] v.t = "null"      -> FALSE
      [] v.t = "number"    -> v.n # 0
      [] v.t = "string"    -> v.s # <<>>
      [] OTHER             -> TRUE

\* ${v} in a template literal: the chunks of String(v)
Interp(v) ==
    CASE v.t = "string"    -> v.s
      [] v.t = "number"    -> <<ToString(v.n)>>
      [] v.t = "undefined" -> <<"undefined">>
      [] v.t = "null"      -> <<"null">>
      [] OTHER             -> <<"[object Object]">>

NL == "\n"

RECURSIVE Join(_, _)
\* parts.join(sep)
Join(parts, sep) ==
    IF parts = <<>> THEN <<>>
    ELSE IF Len(parts) = 1 THEN parts[1]
    ELSE parts[1] \o <<sep>> \o Join(Tail(parts), sep)

----------------------------------------------------------------------------
(* styleFlex.ts *)

Breakpoints == {"sm", "md", "lg"}

MaxGapSize == 6

GapSizes == 0 .. MaxGapSize

getGapSize(size) ==
    IF size # Undefined
    THEN (IF size = Num(0)
          THEN Str(<<"0">>)
          ELSE Str(<<"var(--gap-size-">> \o Interp(size) \o <<")">>))
    ELSE Undefined

\* priority swapped: the axis shortcut beats the individual side
spacingSides_AxisFirst(d) ==
    [top    |-> Coalesce(Coalesce(Get(d, "vertical"), Get(d, "top")), Get(d, "all")),
     right  |-> Coalesce(Coalesce(Get(d, "horizontal"), Get(d, "right")), Get(d, "all")),
     bottom |-> Coalesce(Coalesce(Get(d, "vertical"), Get(d, "bottom")), Get(d, "all")),
     left   |-> Coalesce(Coalesce(Get(d, "horizontal"), Get(d, "left")), Get(d, "all"))]

\* const styles = { top: def.top ?? def.vertical ?? def.all, ... }
spacingSides(d) ==
    [top    |-> Coalesce(Coalesce(Get(d, "top"), Get(d, "vertical")), Get(d, "all")),
     right  |-> Coalesce(Coalesce(Get(d, "right"), Get(d, "horizontal")), Get(d, "all")),
     bottom |-> Coalesce(Coalesce(Get(d, "bottom"), Get(d, "vertical")), Get(d, "all")),
     left   |-> Coalesce(Coalesce(Get(d, "left"), Get(d, "horizontal")), Get(d, "all"))]

\* one guarded parts.push(`${prefix}-<side>: ${getGapSize(value)};`)
spacingPart(prefix, side, value) ==
    IF value # Undefined
    THEN << Interp(prefix) \o <<"-", side, ": ">>
            \o Interp(getGapSize(value)) \o <<";">> >>
    ELSE <<>>

styleSpacing(ty, d) ==
    IF ~Truthy(d) THEN <<>>
    ELSE LET prefix == ty
             styles == spacingSides(d)
             parts  == spacingPart(prefix, "top", styles.top)
                       \o spacingPart(prefix, "right", styles.right)
                       \o spacingPart(prefix, "bottom", styles.bottom)
                       \o spacingPart(prefix, "left", styles.left)
         IN  Join(parts, NL)


\* "sm" in spacing || "md" in spacing || "lg" in spacing
hasBreakpointKey(v) == HasKey(v, "sm") \/ HasKey(v, "md") \/ HasKey(v, "lg")

\* a lower tier's value is inherited when the tier has none
valueAt_Inherit(v, bp, scalar) ==
    IF TypeOf(v) = "object"
    THEN Coalesce(Get(v, bp), Get(v, "sm"))
    ELSE IF bp = "sm" /\ TypeOf(v) = scalar THEN v ELSE Undefined

\* typeof props.f === "object" ? props.f[breakpoint]
\*   : breakpoint === "sm" && typeof props.f === scalar ? props.f : undefined
valueAt(v, bp, scalar) ==
    IF TypeOf(v) = "object"
    THEN Get(v, bp)
    ELSE IF bp = "sm" /\ TypeOf(v) = scalar THEN v ELSE Undefined

spacingAt(p, bp) ==
    IF TypeOf(p.spacing) = "object" /\ hasBreakpointKey(p.spacing)
    THEN Get(p.spacing, bp)
    ELSE Undefined

\* display: flex; is pushed at every breakpoint
displayStyles_Always(bp) == << <<"display: flex;">> >>

\* if (breakpoint === "sm") styles.push("display: flex;")
displayStyles(bp) == IF bp = "sm" THEN << <<"display: flex;">> >> ELSE <<>>

\* if (v) styles.push(`<name>: ${v};`)
truthyStyles(name, v) ==
    IF Truthy(v) THEN << <<name, ": ">> \o Interp(v) \o <<";">> >> ELSE <<>>

\* the guard is the truthiness of grow, which drops an explicit 0
growStyles_Truthy(grow) ==
    IF Truthy(grow)
    THEN << <<"flex-grow: ">> \o Interp(grow) \o <<";">>, <<"flex-basis: 0;">> >>
    ELSE <<>>

\* if (grow !== undefined) { push(`flex-grow: ${grow};`); push("flex-basis: 0;") }
growStyles(grow) ==
    IF grow # Undefined
    THEN << <<"flex-grow: ">> \o Interp(grow) \o <<";">>, <<"flex-basis: 0;">> >>
    ELSE <<>>

\* if (gap !== undefined) styles.push(`gap: var(--gap-size-${gap});`)
gapStyles(gap) ==
    IF gap # Undefined
    THEN << <<"gap: var(--gap-size-">> \o Interp(gap) \o <<");">> >>
    ELSE <<>>

\* a || b
Or(a, b) == IF Truthy(a) THEN a ELSE b

styleFlex(bp, p) ==
    LET direction      == valueAt(p.direction, bp, "string")
        gap            == valueAt(p.gap, bp, "number")
        grow           == valueAt(p.grow, bp, "number")
        alignItems     == valueAt(p.alignItems, bp, "string")
        justifyContent == valueAt(p.justifyContent, bp, "string")
        spacing        == spacingAt(p, bp)
        spacingStyles  == styleSpacing(Or(p.type, Str(<<"padding">>)), spacing)
        styles == displayStyles(bp)
                  \o truthyStyles("flex-direction", direction)
                  \o truthyStyles("align-items", alignItems)
                  \o truthyStyles("justify-content", justifyContent)
                  \o growStyles(grow)
                  \o gapStyles(gap)
                  \o (IF Truthy(spacing) /\ spacingStyles # <<>>
                      THEN <<spacingStyles>> ELSE <<>>)
    IN  Join(styles, NL)

----------------------------------------------------------------------------
(* normalizeProps.ts *)

BREAKPOINT_PROPS == <<"gap", "direction", "grow">>

\* normalizedProps is the argument itself, not a copy of it
normalizedPropsRef_Alias == "props"

\* const normalizedProps = { ...props }: a new record, in a cell of its own
normalizedPropsRef == "copy"

\* the guard is the truthiness of the value, which leaves a scalar 0 unwrapped
isSimpleValue_Truthy(value) == Truthy(value) /\ TypeOf(value) # "object"

\* value !== undefined && typeof value !== "object"
isSimpleValue(value) == value # Undefined /\ TypeOf(value) # "object"

\* only md and lg mark a breakpoint object
isBreakpointSpacing_NoSm(s) == HasKey(s, "md") \/ HasKey(s, "lg")

\* "sm" in props.spacing || "md" in props.spacing || "lg" in props.spacing
isBreakpointSpacing(s) == hasBreakpointKey(s)

RECURSIVE wrapBreakpointProps(_, _, _)
\* BREAKPOINT_PROPS.forEach(...), from the i-th name on: heap.props is the
\* argument's cell, heap[ref] the cell of normalizedProps
wrapBreakpointProps(heap, ref, i) ==
    IF i > Len(BREAKPOINT_PROPS) THEN heap
    ELSE LET propName == BREAKPOINT_PROPS[i]
             value    == heap.props[propName]
             h        == IF isSimpleValue(value)
                         THEN [heap EXCEPT ![ref][propName] = Obj([sm |-> value])]
                         ELSE heap
         IN  wrapBreakpointProps(h, ref, i + 1)

\* the spacing block: the heap it leaves and whether it threw
wrapSpacing(heap, ref) ==
    LET spacing == heap.props.spacing
    IN  IF spacing # Undefined
        THEN IF TypeOf(spacing) = "number"
             THEN [heap  |-> [heap EXCEPT ![ref].spacing =
                                  Obj([sm |-> Obj([all |-> spacing])])],
                   threw |-> FALSE]
             ELSE IF InThrows(spacing)
             THEN [heap |-> heap, threw |-> TRUE]
             ELSE IF ~isBreakpointSpacing(spacing)
             THEN [heap  |-> [heap EXCEPT ![ref].spacing = Obj([sm |-> spacing])],
                   threw |-> FALSE]
             ELSE [heap |-> heap, threw |-> FALSE]
        ELSE [heap |-> heap, threw |-> FALSE]

\* normalizeProps(p): the heap after the call (the argument's cell and the
\* copy's), the cell returned, and whether the call threw
normalizeProps(p) ==
    LET ref == normalizedPropsRef
        h0  == [props |-> p, copy |-> p]
        h1  == wrapBreakpointProps(h0, ref, 1)
        r   == wrapSpacing(h1, ref)
    IN  [heap |-> r.heap, ref |-> IF r.threw THEN "none" ELSE ref, threw |-> r.threw,
         value |-> r.heap[ref]]

----------------------------------------------------------------------------
(* Reading a string back: its lines, as chunks and as one TLA+ string each *)

RECURSIVE Flat(_)
Flat(chunks) == IF chunks = <<>> THEN "" ELSE chunks[1] \o Flat(Tail(chunks))

RECURSIVE SplitLines(_, _, _)
SplitLines(s, cur, acc) ==
    IF s = <<>> THEN Append(acc, cur)
    ELSE IF s[1] = NL THEN SplitLines(Tail(s), <<>>, Append(acc, cur))
    ELSE SplitLines(Tail(s), Append(cur, s[1]), acc)

\* s.split("\n") with each line's chunks, except that "" has no lines
LineChunks(s) == IF s = <<>> THEN <<>> ELSE SplitLines(s, <<>>, <<>>)

\* the lines of s, each as one string
Lines(s) == LET C == LineChunks(s) IN [i \in DOMAIN C |-> Flat(C[i])]

\* the gap token the data model gives a GapSize: 0 is the literal 0
GapToken(n) == IF n = 0 THEN "0" ELSE "var(--gap-size-" \o ToString(n) \o ")"

----------------------------------------------------------------------------
(* Inputs *)

NoProps ==
    [gap |-> Undefined, direction |-> Undefined, grow |-> Undefined,
     spacing |-> Undefined, alignItems |-> Undefined,
     justifyContent |-> Undefined, type |-> Undefined]

NoRet == [ref |-> "none", threw |-> FALSE]

NoAgain == [threw |-> FALSE, value |-> NoProps]

BreakpointMaps(V) == UNION {[S -> V] : S \in SUBSET Breakpoints}

\* a field typed T | BreakpointMap<T>, or absent
Responsive(V) == {Undefined} \cup V \cup {Obj(m) : m \in BreakpointMaps(V)}

SpacingKeys == {"all", "horizontal", "vertical", "top", "right", "bottom", "left"}

MaxSpacingValue == 3

\* every SpacingDefinition whose values are at most MaxSpacingValue
SpacingDefinitions ==
    UNION {[S -> {Num(n) : n \in 0 .. MaxSpacingValue}] : S \in SUBSET SpacingKeys}

MaxNormGap == 1

NormDefs == {Obj([all |-> Num(3)]), Obj([horizontal |-> Num(2), top |-> Num(0)])}

\* the spacing values a caller may pass, and two that match no recognized shape
NormSpacings ==
    {Undefined, Null, Str(<<"2">>)}
        \cup {Num(n) : n \in 0 .. MaxNormGap}
        \cup {Obj(EmptyObj)} \cup NormDefs
        \cup {Obj(m) : m \in BreakpointMaps(NormDefs \cup {Obj(EmptyObj)})}

\* gap/direction/grow absent, a scalar or a breakpoint map; spacing absent, a
\* number, a bare SpacingDefinition or a breakpoint map of them
ValidRaw(p) == p.spacing \notin {Null, Str(<<"2">>)}

MaxGrow == 1

StyleGaps ==
    {Undefined, Num(0), Num(2)}
        \cup {Obj([t \in {bp} |-> Num(g)]) : bp \in Breakpoints, g \in GapSizes}
        \cup {Obj([sm |-> Num(1), md |-> Num(3)])}

StyleDirections ==
    {Undefined, Str(<<"row">>), Obj([sm |-> Str(<<"column">>)]),
     Obj([sm |-> Str(<<"column">>), md |-> Str(<<"row">>)])}

StyleGrows ==
    {Undefined} \cup {Num(n) : n \in 0 .. MaxGrow}
        \cup {Obj([t \in S |-> Num(n)]) :
                 S \in {{"sm"}, {"md"}, {"sm", "lg"}}, n \in 0 .. MaxGrow}

StyleSpacings ==
    {Undefined, Num(2),
     Obj([all |-> Num(1), horizontal |-> Num(2), top |-> Num(3)]),
     Obj([md |-> Obj([horizontal |-> Num(2)])]),
     Obj([sm |-> Obj([all |-> Num(0)])]),
     Obj([sm |-> Obj(EmptyObj)]),
     Obj([sm |-> Obj([vertical |-> Num(1)]),
          lg |-> Obj([left |-> Num(2), right |-> Num(0)])])}

----------------------------------------------------------------------------
(* styleSpacing on every SpacingDefinition *)

InitSpacing ==
    /\ pc = "init"
    /\ props = NoProps
    /\ normalizedProps = NoProps
    /\ ret = NoRet
    /\ again = NoAgain
    /\ breakpoint = "sm"
    /\ flexProps = NoProps
    /\ css = <<>>
    /\ type = Str(<<"padding">>)
    /\ def \in {Undefined} \cup {Obj(d) : d \in SpacingDefinitions}

StyleSpacing(ty) ==
    /\ type' = ty
    /\ css' = styleSpacing(ty, def)
    /\ pc' = "styleSpacing"
    /\ UNCHANGED <<props, normalizedProps, ret, again, breakpoint, flexProps, def>>

NextSpacing == \E ty \in {Str(<<"padding">>), Str(<<"margin">>)} : StyleSpacing(ty)

SpecSpacing == InitSpacing /\ [][NextSpacing]_vars

----------------------------------------------------------------------------
(* normalizeProps, and normalizeProps on its own result *)

InitNormalize ==
    /\ pc = "init"
    /\ \E g \in Responsive({Num(n) : n \in 0 .. MaxNormGap}),
          d \in Responsive({Str(<<"row">>)}),
          w \in Responsive({Num(0)}),
          s \in NormSpacings,
          ty \in {Undefined, Str(<<"margin">>)} :
            props = [NoProps EXCEPT !.gap = g, !.direction = d, !.grow = w,
                                    !.spacing = s, !.type = ty]
    /\ normalizedProps = NoProps
    /\ ret = NoRet
    /\ again = NoAgain
    /\ breakpoint = "sm"
    /\ flexProps = NoProps
    /\ css = <<>>
    /\ type = Str(<<"padding">>)
    /\ def = Undefined

\* normalizeProps(props)
NormalizeProps ==
    /\ pc = "init"
    /\ LET r == normalizeProps(props)
       IN  /\ props' = r.heap.props
           /\ normalizedProps' = IF r.threw THEN NoProps ELSE r.value
           /\ ret' = [ref |-> r.ref, threw |-> r.threw]
    /\ pc' = "normalizeProps"
    /\ UNCHANGED <<again, breakpoint, flexProps, css, type, def>>

\* normalizeProps(normalizedProps)
NormalizeAgain ==
    /\ pc = "normalizeProps"
    /\ ~ret.threw
    /\ LET r == normalizeProps(normalizedProps)
       IN  /\ normalizedProps' = r.heap.props
           /\ again' = [threw |-> r.threw,
                        value |-> IF r.threw THEN NoProps ELSE r.value]
    /\ pc' = "normalizeAgain"
    /\ UNCHANGED <<props, ret, breakpoint, flexProps, css, type, def>>

NextNormalize == NormalizeProps \/ NormalizeAgain

SpecNormalize == InitNormalize /\ [][NextNormalize]_vars

----------------------------------------------------------------------------
(* The pipeline: normalizeProps once, styleFlex per breakpoint *)

Init ==
    /\ pc = "init"
    /\ \E g \in StyleGaps, d \in StyleDirections, w \in StyleGrows,
          s \in StyleSpacings,
          a \in {Undefined, Str(<<"center">>)},
          j \in {Undefined, Str(<<"space-between">>)},
          ty \in {Undefined, Str(<<"margin">>)} :
            props = [gap |-> g, direction |-> d, grow |-> w, spacing |-> s,
                     alignItems |-> a, justifyContent |-> j, type |-> ty]
    /\ normalizedProps = NoProps
    /\ ret = NoRet
    /\ again = NoAgain
    /\ breakpoint = "sm"
    /\ flexProps = NoProps
    /\ css = <<>>
    /\ type = Str(<<"padding">>)
    /\ def = Undefined

\* styleFlex(bp, ...) on the props the component holds: the normalized ones
\* once normalizeProps has returned, the raw ones before
StyleFlex(bp) ==
    /\ breakpoint' = bp
    /\ flexProps' = IF ret.ref = "none" THEN props ELSE normalizedProps
    /\ css' = styleFlex(bp, flexProps')
    /\ pc' = "styleFlex"
    /\ UNCHANGED <<props, normalizedProps, ret, again, type, def>>

Normalize ==
    /\ ret.ref = "none"
    /\ LET r == normalizeProps(props)
       IN  /\ props' = r.heap.props
           /\ normalizedProps' = IF r.threw THEN NoProps ELSE r.value
           /\ ret' = [ref |-> r.ref, threw |-> r.threw]
    /\ pc' = "normalizeProps"
    /\ UNCHANGED <<again, breakpoint, flexProps, css, type, def>>

Next == Normalize \/ \E bp \in Breakpoints : StyleFlex(bp)

Spec == Init /\ [][Next]_vars

----------------------------------------------------------------------------
(* Properties *)

\* the position of a line in a sequence of lines, or 0
IndexOf(L, line) ==
    IF \E i \in DOMAIN L : L[i] = line
    THEN CHOOSE i \in DOMAIN L : L[i] = line /\ \A j \in 1 .. (i - 1) : L[j] # line
    ELSE 0

\* the lines of the output whose first chunk is one of heads
LinesWithHead(s, heads) ==
    LET C == LineChunks(s)
    IN  {i \in DOMAIN C : C[i] # <<>> /\ C[i][1] \in heads}

Normalized == ret.ref # "none"

\* C1: when props.gap is a breakpoint map whose entry at the tier is g, the
\* output of styleFlex contains `gap: 0;` for g = 0 and
\* `gap: var(--gap-size-g);` for g in 1..6.
C1_GapDeclaration ==
    (pc = "styleFlex" /\ TypeOf(flexProps.gap) = "object"
        /\ HasKey(flexProps.gap, breakpoint))
    => IndexOf(Lines(css),
               "gap: " \o GapToken(Get(flexProps.gap, breakpoint).n) \o ";") # 0

\* the side a SpacingDefinition gives: the side, else its axis, else all
SideOf(d, side, axis) ==
    IF side \in DOMAIN d.o THEN d.o[side]
    ELSE IF axis \in DOMAIN d.o THEN d.o[axis]
    ELSE IF "all" \in DOMAIN d.o THEN d.o["all"]
    ELSE Undefined

SideLine(kind, d, side, axis) ==
    IF SideOf(d, side, axis) = Undefined THEN <<>>
    ELSE <<Flat(kind.s) \o "-" \o side \o ": "
             \o GapToken(SideOf(d, side, axis).n) \o ";">>

ScenarioC3 ==
    [NoProps EXCEPT
        !.direction = Obj([sm |-> Str(<<"column">>), md |-> Str(<<"row">>)]),
        !.spacing = Obj([md |-> Obj([horizontal |-> Num(2)])])]

\* C3: styleFlex("md", normalizeProps({direction: {sm: "column", md: "row"},
\* spacing: {md: {horizontal: 2}}})) is exactly the lines `flex-direction:
\* row;`, `padding-left: var(--gap-size-2);`, `padding-right:
\* var(--gap-size-2);`, in that order.
C3_Scenario ==
    (pc = "styleFlex" /\ Normalized /\ props = ScenarioC3 /\ breakpoint = "md")
    => Lines(css) = <<"flex-direction: row;",
                      "padding-left: var(--gap-size-2);",
                      "padding-right: var(--gap-size-2);">>

\* C4: normalizeProps is idempotent on valid raw props:
\* normalizeProps(normalizeProps(p)) equals normalizeProps(p).
C4_Idempotent ==
    (pc = "normalizeAgain" /\ ValidRaw(props))
    => (~again.threw /\ again.value = normalizedProps)

C4_Witness ==
    /\ pc = "normalizeAgain"
    /\ props.gap = Num(1)
    /\ props.spacing = Obj([all |-> Num(3)])
    /\ again.value.gap = Obj([sm |-> Num(1)])
    /\ again.value.spacing = Obj([sm |-> Obj([all |-> Num(3)])])

\* C5: normalizeProps never raises an error: also for a spacing value that is
\* not absent, not a number and not an object (a string, null) the call
\* returns normally, with that field passed through unchanged.
C5_NeverThrows ==
    pc = "normalizeProps"
    => (~ret.threw
        /\ (~ValidRaw(props) => normalizedProps.spacing = props.spacing))

\* what the normalizer makes of a gap, direction or grow value
WrappedScalarField(v) ==
    IF v = Undefined THEN Undefined
    ELSE IF v.t = "object" THEN v
    ELSE Obj([sm |-> v])

\* what the normalizer makes of a spacing value
WrappedSpacing(v) ==
    IF v = Undefined THEN Undefined
    ELSE IF v.t = "number" THEN Obj([sm |-> Obj([all |-> v])])
    ELSE IF DOMAIN v.o \cap Breakpoints = {} THEN Obj([sm |-> v])
    ELSE v

\* C6: in normalizeProps(p), p valid: a scalar gap/direction/grow v becomes
\* {sm: v}; a numeric spacing n becomes {sm: {all: n}}; a spacing object with
\* none of the keys sm/md/lg becomes {sm: <that object>}; a field that is
\* already an object (for spacing: with a key among sm/md/lg) is unchanged; an
\* absent field stays absent; so every present field is a breakpoint map.
C6_NormalForm ==
    (pc = "normalizeProps" /\ ValidRaw(props))
    => /\ ~ret.threw
       /\ \A f \in {"gap", "direction", "grow"} :
            /\ normalizedProps[f] = WrappedScalarField(props[f])
            /\ normalizedProps[f] # Undefined
                 => (normalizedProps[f].t = "object"
                     /\ DOMAIN normalizedProps[f].o \subseteq Breakpoints)
       /\ normalizedProps.spacing = WrappedSpacing(props.spacing)
       /\ normalizedProps.spacing # Undefined
            => (normalizedProps.spacing.t = "object"
                /\ DOMAIN normalizedProps.spacing.o \subseteq Breakpoints)

C6_Witness ==
    /\ pc = "normalizeProps"
    /\ props.gap = Num(0)
    /\ props.direction = Str(<<"row">>)
    /\ props.grow = Obj([md |-> Num(0)])
    /\ props.spacing = Num(1)
    /\ normalizedProps.gap = Obj([sm |-> Num(0)])
    /\ normalizedProps.direction = Obj([sm |-> Str(<<"row">>)])
    /\ normalizedProps.grow = Obj([md |-> Num(0)])
    /\ normalizedProps.spacing = Obj([sm |-> Obj([all |-> Num(1)])])

\* C7: the output of styleFlex("sm", props) starts with the line `display:
\* flex;`, and the outputs at md and lg never contain `display: flex;`.
C7_Display ==
    pc = "styleFlex"
    => IF breakpoint = "sm"
       THEN Len(Lines(css)) >= 1 /\ Lines(css)[1] = "display: flex;"
       ELSE IndexOf(Lines(css), "display: flex;") = 0

C7_Witness ==
    /\ pc = "styleFlex"
    /\ breakpoint = "md"
    /\ Len(Lines(css)) >= 2
    /\ IndexOf(Lines(css), "display: flex;") = 0

\* grow resolves at the tier: a map with an entry at the tier, or a scalar at sm
GrowResolves ==
    \/ flexProps.grow.t = "object" /\ breakpoint \in DOMAIN flexProps.grow.o
    \/ flexProps.grow.t = "number" /\ breakpoint = "sm"

GrowResolved ==
    IF flexProps.grow.t = "object" THEN flexProps.grow.o[breakpoint]
    ELSE flexProps.grow

\* C8: whenever grow resolves at the tier to any value, an explicit 0
\* included, the output of styleFlex contains `flex-grow: <value>;` and the
\* very next line is `flex-basis: 0;`; when grow does not resolve, neither
\* `flex-grow:` nor `flex-basis:` appears.
C8_GrowPairing ==
    pc = "styleFlex"
    => LET L == Lines(css)
           i == IndexOf(L, "flex-grow: " \o ToString(GrowResolved.n) \o ";")
       IN  IF GrowResolves
           THEN i # 0 /\ i < Len(L) /\ L[i + 1] = "flex-basis: 0;"
           ELSE LinesWithHead(css, {"flex-grow: ", "flex-basis: 0;"}) = {}

C8_Witness ==
    /\ pc = "styleFlex"
    /\ breakpoint = "md"
    /\ flexProps.grow = Obj([md |-> Num(0)])
    /\ IndexOf(Lines(css), "flex-grow: 0;") # 0

\* the breakpoint map of a field has an entry keyed by the tier
HasEntry(v, bp) == v.t = "object" /\ bp \in DOMAIN v.o

\* C9: for normalized props, styleFlex(t, props) emits a declaration for
\* flex-direction, gap, flex-grow or padding-*/margin-* only when that
\* field's breakpoint map has an entry keyed by t.
C9_TierIsolation ==
    (pc = "styleFlex" /\ Normalized)
    => /\ LinesWithHead(css, {"flex-direction"}) # {}
            => HasEntry(flexProps.direction, breakpoint)
       /\ LinesWithHead(css, {"gap: var(--gap-size-", "gap: "}) # {}
            => HasEntry(flexProps.gap, breakpoint)
       /\ LinesWithHead(css, {"flex-grow: ", "flex-basis: 0;"}) # {}
            => HasEntry(flexProps.grow, breakpoint)
       /\ LinesWithHead(css, {"padding", "margin"}) # {}
            => HasEntry(flexProps.spacing, breakpoint)

C9_Witness ==
    /\ pc = "styleFlex"
    /\ Normalized
    /\ breakpoint = "md"
    /\ props.gap = Num(2)
    /\ flexProps.gap = Obj([sm |-> Num(2)])
    /\ flexProps.direction = Obj([sm |-> Str(<<"column">>), md |-> Str(<<"row">>)])
    /\ flexProps.spacing = Obj([sm |-> Obj([all |-> Num(0)])])
    /\ Lines(css) = <<"flex-direction: row;">>

\* C10: normalizeProps leaves its input untouched: after the call every field
\* of the argument has the value it had before, and the record returned is
\* not the argument's record.
C10_InputUntouched ==
    [][/\ pc' = "normalizeProps" => (props' = props /\ ret'.ref # "props")
       /\ pc' = "normalizeAgain" => normalizedProps' = normalizedProps]_vars

C10_Witness ==
    /\ pc = "normalizeProps"
    /\ ret.ref = "copy"
    /\ props.gap = Num(1)
    /\ normalizedProps.gap = Obj([sm |-> Num(1)])
    /\ props.spacing = Obj([all |-> Num(3)])
    /\ normalizedProps.spacing = Obj([sm |-> props.spacing])

====
